---- MODULE Spec2Model ----
(***************************************************************************)
(* Tamil-OCR desktop application (src/main.py): the document-to-text       *)
(* pipeline.  OCRApp (per-page caches, editor, threshold), OCRManager and  *)
(* its thread pool of OCRTask, PDFConversionWorker, and the Qt signals     *)
(* that cross from the worker threads to the GUI thread.                   *)
(*                                                                         *)
(* A Python str is a sequence of one-character strings; a dict is a        *)
(* function whose DOMAIN is its key set; a list is a sequence.             *)
(***************************************************************************)
EXTENDS Integers, Sequences, FiniteSets, TLC

\* calc holds the arguments and the results of a function that is applied on its
\* own (line reconstruction, page resize); the application leaves it alone
VARIABLES app, mgr, events, workers, disk, hist, calc

vars == <<app, mgr, events, workers, disk, hist, calc>>

----------------------------------------------------------------------------
(* Bounds of the model *)

\* pages of the PDF document the user can open
MaxPages == 2
\* process_file calls explored
MaxLoads == 1
\* start_processing calls explored
MaxRuns == 2
\* os.cpu_count() of the machine
CpuCount == 1
\* process_file calls explored where one document replaces another
MaxReloads == 2
\* words of the word lists on which line reconstruction is applied on its own
MaxWords == 3
\* pages of the PDF whose tasks fill the thread pool
BookPages == 5
\* largest os.cpu_count() of the machines on which the pool is created
PoolCpus == 5

----------------------------------------------------------------------------
(* Python built-ins *)

Min(a, b) == IF a < b THEN a ELSE b

SP == " "
NL == "\n"

\* d[k] = v on a dict
Put(d, k, v) == [x \in (DOMAIN d) \cup {k} |-> IF x = k THEN v ELSE d[x]]

EmptyDict == <<>>

RECURSIVE LStrip(_)
LStrip(s) == IF s # <<>> /\ Head(s) \in {SP, NL} THEN LStrip(Tail(s)) ELSE s

RECURSIVE RStrip(_)
RStrip(s) ==
    IF s # <<>> /\ s[Len(s)] \in {SP, NL} THEN RStrip(SubSeq(s, 1, Len(s) - 1)) ELSE s

\* str.strip()
Strip(s) == RStrip(LStrip(s))

\* sep.join(parts)
RECURSIVE Join(_, _)
Join(sep, parts) ==
    IF parts = <<>> THEN <<>>
    ELSE IF Len(parts) = 1 THEN parts[1]
    ELSE parts[1] \o <<sep>> \o Join(sep, Tail(parts))

\* float(x) inside try/except: an unparsable confidence becomes -1
ParseConf(c) == IF c.num THEN c.val ELSE -1

----------------------------------------------------------------------------
(* The recognition engine's output (pytesseract.image_to_data, Output.DICT) *)

Num(v) == [num |-> TRUE, val |-> v]
NoConf == [num |-> FALSE, val |-> 0]

\* even pages of a document: "ab" and "c" on one line (the second below 50),
\* "d" on the next line
DataEven ==
    [text      |-> << <<"a", "b">>, <<"c", SP>>, <<"d">> >>,
     conf      |-> << Num(90), Num(40), Num(90) >>,
     block_num |-> <<1, 1, 1>>,
     par_num   |-> <<1, 1, 1>>,
     line_num  |-> <<1, 1, 2>>]

\* odd pages: a blank box, a word at confidence 50 exactly, an unparsable one
DataOdd ==
    [text      |-> << <<SP>>, <<"e">>, <<"f">>, <<"g">> >>,
     conf      |-> << Num(95), Num(50), NoConf, Num(96) >>,
     block_num |-> <<1, 1, 1, 2>>,
     par_num   |-> <<1, 1, 1, 1>>,
     line_num  |-> <<1, 1, 1, 1>>]

\* same image, same output: the engine is deterministic on a page image
EngineOutput(path) == IF path.page % 2 = 0 THEN DataEven ELSE DataOdd

----------------------------------------------------------------------------
(* Line reconstruction *)

CloseLine(text_lines, current_line) ==
    IF current_line # <<>> THEN Append(text_lines, Join(SP, current_line))
    ELSE text_lines

\* the for-loop of OCRTask.extract_text_lines, from box i on
RECURSIVE TaskLinesLoop(_, _, _, _, _, _)
TaskLinesLoop(data, confidence_threshold, i, text_lines, current_line, last) ==
    IF i > Len(data.text) THEN CloseLine(text_lines, current_line)
    ELSE LET conf == ParseConf(data.conf[i])
             word == Strip(data.text[i])
             key  == <<data.block_num[i], data.par_num[i], data.line_num[i]>>
         IN  IF conf > confidence_threshold /\ word # <<>>
             THEN IF key # last
                  THEN TaskLinesLoop(data, confidence_threshold, i + 1,
                                     CloseLine(text_lines, current_line), <<word>>, key)
                  ELSE TaskLinesLoop(data, confidence_threshold, i + 1,
                                     text_lines, Append(current_line, word), last)
             ELSE TaskLinesLoop(data, confidence_threshold, i + 1,
                                text_lines, current_line, last)

\* a filter that also keeps a confidence equal to the threshold
extract_text_lines_keeping_equal(data, confidence_threshold) ==
    TaskLinesLoop(data, confidence_threshold - 1, 1, <<>>, <<>>, <<-1, -1, -1>>)

\* a reconstruction that starts a new line only when line_num changes
extract_text_lines_by_line_num(data, confidence_threshold) ==
    TaskLinesLoop([data EXCEPT !.block_num = [i \in DOMAIN @ |-> 0],
                               !.par_num = [i \in DOMAIN @ |-> 0]],
                  confidence_threshold, 1, <<>>, <<>>, <<-1, -1, -1>>)

\* a filter that keeps the words at or below the threshold
extract_text_lines_keeping_low(data, confidence_threshold) ==
    TaskLinesLoop([data EXCEPT !.conf = [i \in DOMAIN @ |-> Num(0 - ParseConf(@[i]))]],
                  0 - confidence_threshold - 1, 1, <<>>, <<>>, <<-1, -1, -1>>)

\* a filter that reads the threshold from the other end of the scale
extract_text_lines_mirrored(data, confidence_threshold) ==
    TaskLinesLoop(data, 100 - confidence_threshold, 1, <<>>, <<>>, <<-1, -1, -1>>)

extract_text_lines(data, confidence_threshold) ==
    TaskLinesLoop(data, confidence_threshold, 1, <<>>, <<>>, <<-1, -1, -1>>)

\* the for-loop of OCRApp.extract_text_lines_from_data, from box i on
RECURSIVE AppLinesLoop(_, _, _, _, _, _)
AppLinesLoop(data, confidence_threshold, i, text_lines, current_line, last) ==
    IF i > Len(data.text) THEN CloseLine(text_lines, current_line)
    ELSE LET conf == ParseConf(data.conf[i])
             word == Strip(data.text[i])
             key  == <<data.block_num[i], data.par_num[i], data.line_num[i]>>
         IN  IF conf > confidence_threshold /\ word # <<>>
             THEN IF key # last
                  THEN AppLinesLoop(data, confidence_threshold, i + 1,
                                    CloseLine(text_lines, current_line), <<word>>, key)
                  ELSE AppLinesLoop(data, confidence_threshold, i + 1,
                                    text_lines, Append(current_line, word), last)
             ELSE AppLinesLoop(data, confidence_threshold, i + 1,
                               text_lines, current_line, last)

\* the application's reconstruction with a filter that also keeps a confidence
\* equal to the threshold
extract_text_lines_from_data_keeping_equal(data, confidence_threshold) ==
    AppLinesLoop(data, confidence_threshold - 1, 1, <<>>, <<>>, <<-1, -1, -1>>)

extract_text_lines_from_data(data, confidence_threshold) ==
    AppLinesLoop(data, confidence_threshold, 1, <<>>, <<>>, <<-1, -1, -1>>)

\* the indices of the boxes add_bounding_boxes draws
RECURSIVE BoxesLoop(_, _, _, _)
BoxesLoop(data, confidence_threshold, i, items) ==
    IF i > Len(data.text) THEN items
    ELSE IF ParseConf(data.conf[i]) > confidence_threshold /\ Strip(data.text[i]) # <<>>
         THEN BoxesLoop(data, confidence_threshold, i + 1, Append(items, i))
         ELSE BoxesLoop(data, confidence_threshold, i + 1, items)

----------------------------------------------------------------------------
(* Files *)

Files == {"scan.png", "doc.pdf"}

\* the same, a PDF of one page and an image the user keeps in the temp directory,
\* for the loads that replace a document
Documents == Files \cup {"note.pdf", "shot.png"}

\* file_path.lower().endswith('.pdf')
IsPdf(file) == file \in {"doc.pdf", "note.pdf", "book.pdf"}

\* len(convert_from_path(pdf_path))
NumPages(file) ==
    IF file = "doc.pdf" THEN MaxPages
    ELSE IF file = "book.pdf" THEN BookPages
    ELSE 1

\* the path of a file the user opens
UserPath(file) ==
    [file |-> file, page |-> 0, load |-> 0,
     dir |-> IF file = "shot.png" THEN "tmp" ELSE "home"]

\* tempfile.mkstemp(suffix="_page_i.png"): a fresh name in the temp directory
TempPath(file, i, load) == [file |-> file, page |-> i, load |-> load, dir |-> "tmp"]

\* tempfile.gettempdir() in p
InTempDir(p) == p.dir = "tmp"

----------------------------------------------------------------------------
(* Texts the program writes into the editor, and texts the user types *)

ProcessingMsg == <<"Processing OCR...">>
RerunMsg == <<"Re-running OCR...">>

EditTexts == { <<"c", "u", "s", "t", "o", "m">> }

\* the values of the confidence spin box that are tried
Thresholds == {0, 50}

\* QLineEdit("tam_cus+eng"), and the fallback of start_ocr_processing
DefaultLang == <<"tam_cus+eng">>

\* what the user types into the language field: nothing, a blank, a language
LangInputs == {<<>>, <<SP>>, <<"eng">>}

----------------------------------------------------------------------------
(* OCRApp: the handlers as functions of the application object `a` *)

IsModified(a, i) == i \in DOMAIN a.text_modified /\ a.text_modified[i]

on_text_edited(a) ==
    IF a.temp_pages # <<>>
    THEN [a EXCEPT !.text_modified = Put(@, a.current_page_index, TRUE),
                   !.reset_text_btn = TRUE]
    ELSE a

\* text_edit.setPlainText / clear while textChanged is connected to on_text_edited
SetTextConnected(a, text) == on_text_edited([a EXCEPT !.text_edit = text])

\* the same between textChanged.disconnect() and textChanged.connect(...)
SetTextDisconnected(a, text) == [a EXCEPT !.text_edit = text]

reset_current_text(a) ==
    IF a.current_page_index \in DOMAIN a.text_cache
    THEN [SetTextDisconnected(a, a.text_cache[a.current_page_index])
             EXCEPT !.text_modified = Put(@, a.current_page_index, FALSE),
                    !.reset_text_btn = FALSE]
    ELSE a

save_current_page_text(a) ==
    IF a.temp_pages # <<>>
    THEN [a EXCEPT !.text_cache = Put(@, a.current_page_index, a.text_edit)]
    ELSE a

add_bounding_boxes(a, data, confidence_threshold) ==
    [a EXCEPT !.highlight_items = BoxesLoop(data, confidence_threshold, 1, @)]

\* update_current_page_highlights without its test of text_modified
update_current_page_highlights_ignoring_edits(a) ==
    IF a.temp_pages = <<>> \/ a.current_page_index >= Len(a.temp_pages) THEN a
    ELSE LET cur == a.current_page_index
             a1  == [a EXCEPT !.highlight_items = <<>>]
             a2  == IF cur \in DOMAIN a1.ocr_data_cache
                    THEN add_bounding_boxes(a1, a1.ocr_data_cache[cur], a1.confidence_threshold)
                    ELSE a1
         IN  IF cur \in DOMAIN a2.ocr_data_cache
             THEN LET text == Join(NL, extract_text_lines_from_data(
                                          a2.ocr_data_cache[cur], a2.confidence_threshold))
                  IN  [SetTextDisconnected(a2, text)
                          EXCEPT !.text_cache = Put(@, cur, text)]
             ELSE a2

update_current_page_highlights(a) ==
    IF a.temp_pages = <<>> \/ a.current_page_index >= Len(a.temp_pages) THEN a
    ELSE LET cur == a.current_page_index
             a1  == [a EXCEPT !.highlight_items = <<>>]
             a2  == IF cur \in DOMAIN a1.ocr_data_cache
                    THEN add_bounding_boxes(a1, a1.ocr_data_cache[cur], a1.confidence_threshold)
                    ELSE a1
         IN  IF ~IsModified(a2, cur) /\ cur \in DOMAIN a2.ocr_data_cache
             THEN LET text == Join(NL, extract_text_lines_from_data(
                                          a2.ocr_data_cache[cur], a2.confidence_threshold))
                  IN  [SetTextDisconnected(a2, text)
                          EXCEPT !.text_cache = Put(@, cur, text)]
             ELSE a2

on_confidence_changed(a, value) ==
    LET a1 == [a EXCEPT !.confidence_threshold = value]
    IN  IF a1.current_page_index \in DOMAIN a1.ocr_data_cache
        THEN update_current_page_highlights(a1)
        ELSE a1

set_ui_enabled(a, enabled) ==
    [a EXCEPT !.rerun_ocr_btn = enabled /\ a.temp_pages # <<>>,
              !.reset_text_btn = enabled /\ a.temp_pages # <<>>,
              !.confidence_spinbox = enabled,
              !.lang_enabled = enabled]

display_image_only(a) == [a EXCEPT !.highlight_items = <<>>]

display_current_page_with_cache(a) ==
    IF a.temp_pages = <<>> \/ a.current_page_index >= Len(a.temp_pages) THEN a
    ELSE LET cur == a.current_page_index
             a1  == [a EXCEPT !.highlight_items = <<>>]
             a2  == IF cur \in DOMAIN a1.ocr_data_cache
                    THEN add_bounding_boxes(a1, a1.ocr_data_cache[cur], a1.confidence_threshold)
                    ELSE a1
             a3  == IF cur \in DOMAIN a2.text_cache
                    THEN SetTextDisconnected(a2, a2.text_cache[cur])
                    ELSE SetTextConnected(a2, ProcessingMsg)
         IN  [a3 EXCEPT !.reset_text_btn = IsModified(a3, cur)]

on_page_processed(a, page_index, text, ocr_data) ==
    LET a1 == [a EXCEPT !.ocr_data_cache = Put(@, page_index, ocr_data),
                        !.text_cache = Put(@, page_index, text)]
    IN  IF page_index = a1.current_page_index
        THEN display_current_page_with_cache(a1)
        ELSE a1

on_processing_complete(a) == display_current_page_with_cache(set_ui_enabled(a, TRUE))

on_processing_error(a) == set_ui_enabled(a, TRUE)

prev_page(a) ==
    LET a1 == save_current_page_text(a)
    IN  IF a1.temp_pages # <<>> /\ a1.current_page_index > 0
        THEN display_current_page_with_cache(
                 [a1 EXCEPT !.current_page_index = @ - 1])
        ELSE a1

next_page(a) ==
    LET a1 == save_current_page_text(a)
    IN  IF a1.temp_pages # <<>> /\ a1.current_page_index < Len(a1.temp_pages) - 1
        THEN display_current_page_with_cache(
                 [a1 EXCEPT !.current_page_index = @ + 1])
        ELSE a1

\* the files clear_temp_pages removes
RemovedByClear(a) == {a.temp_pages[k] : k \in 1..Len(a.temp_pages)} \cap {p \in disk : InTempDir(p)}

clear_temp_pages(a) == [a EXCEPT !.temp_pages = <<>>]

\* the text export_text writes: '\n'.join of "=== Page i ===\n<text>\n" blocks
PageMarker(i) == <<"=== Page ", ToString(i), " ===">>

RECURSIVE ExportBlocks(_, _)
ExportBlocks(a, i) ==
    IF i >= Len(a.temp_pages) THEN <<>>
    ELSE << PageMarker(i + 1) \o <<NL>>
            \o (IF i \in DOMAIN a.text_cache THEN a.text_cache[i] ELSE <<>>)
            \o <<NL>> >> \o ExportBlocks(a, i + 1)

export_text(a) == save_current_page_text(a)

\* the blocks of export_text joined by spaces instead of line breaks
ExportedText_joined_by_spaces(a) == Join(SP, ExportBlocks(export_text(a), 0))

ExportedText(a) == Join(NL, ExportBlocks(export_text(a), 0))

\* the text export_text puts under the marker of page i: text_cache.get(i, "")
\* after save_current_page_text
ExportedPageText(a, i) ==
    LET a1 == export_text(a)
    IN  IF i \in DOMAIN a1.text_cache THEN a1.text_cache[i] ELSE <<>>

----------------------------------------------------------------------------
(* OCRManager and its QThreadPool.  A "world" w is the record of the        *)
(* objects a handler chain touches: [app, mgr, hist].                       *)

\* min(4, os.cpu_count() or 2); os.cpu_count() is None (0 here) when undetermined
ThreadCountFor(cpu_count) == Min(4, IF cpu_count = 0 THEN 2 ELSE cpu_count)

\* thread_pool.setMaxThreadCount(min(4, os.cpu_count() or 2))
MaxThreadCount == ThreadCountFor(CpuCount)

Runs == 1..MaxRuns

OCRTask(run, page_index, image_path, confidence_threshold, lang_string) ==
    [run |-> run, page_index |-> page_index, image_path |-> image_path,
     confidence_threshold |-> confidence_threshold, lang_string |-> lang_string]

\* a pool that gives every task a thread of its own
PoolStart_unbounded(m, task) == [m EXCEPT !.running = @ \cup {task}]

\* QThreadPool.start: the task runs at once on a free thread, else it is queued
PoolStart(m, task) ==
    IF Cardinality(m.running) < m.max_thread_count
    THEN [m EXCEPT !.running = @ \cup {task}]
    ELSE [m EXCEPT !.queue = Append(@, task)]

\* the for-loop of start_processing, from page i (0-based) on
RECURSIVE SubmitTasks(_, _, _, _, _)
SubmitTasks(m, image_paths, i, confidence_threshold, lang_string) ==
    IF i >= Len(image_paths) THEN m
    ELSE SubmitTasks(PoolStart(m, OCRTask(m.run, i, image_paths[i + 1],
                                          confidence_threshold, lang_string)),
                     image_paths, i + 1, confidence_threshold, lang_string)

\* OCRApp.on_progress_update, the slot of progress_update
on_progress_update(w, progress) == [w EXCEPT !.hist.progress = progress]

start_processing(w, image_paths, confidence_threshold, lang_string) ==
    LET m1 == [w.mgr EXCEPT !.total_pages = Len(image_paths),
                            !.completed_pages = 0,
                            !.connections = @ + 1,
                            !.run = @ + 1]
        w1 == on_progress_update([w EXCEPT !.mgr = m1], 40)
    IN  [w1 EXCEPT !.mgr = SubmitTasks(w1.mgr, image_paths, 0, confidence_threshold,
                                       lang_string)]

\* processing_complete.emit(): a direct call of OCRApp.on_processing_complete
EmitProcessingComplete(w) ==
    LET r == w.mgr.run
    IN  [w EXCEPT !.app = on_processing_complete(@),
                  !.hist.completeEmits[r] = @ + 1,
                  !.hist.earlyEmit[r] =
                      @ \/ w.hist.reported[r] # 0..(w.mgr.total_pages - 1)]

\* int((completed_pages / total_pages) * 60) is the integer quotient for every
\* count up to 40 pages
on_page_completed(w) ==
    LET w1 == [w EXCEPT !.mgr.completed_pages = @ + 1]
    IN  IF w1.mgr.total_pages = 0 THEN w1
        ELSE LET w2 == on_progress_update(w1,
                           40 + (w1.mgr.completed_pages * 60) \div w1.mgr.total_pages)
             IN  IF w2.mgr.completed_pages >= w2.mgr.total_pages
                 THEN EmitProcessingComplete(w2)
                 ELSE w2

\* one call per connection made by signals.page_processed.connect(on_page_completed)
RECURSIVE CallCompletedSlots(_, _)
CallCompletedSlots(w, n) ==
    IF n = 0 THEN w ELSE CallCompletedSlots(on_page_completed(w), n - 1)

\* stop_all without thread_pool.clear()
stop_all_keeping_queue(m) == m

stop_all(m) == [m EXCEPT !.queue = <<>>]

\* start_ocr_processing with the text of the language field handed on as it is
start_ocr_processing_without_fallback(w) ==
    IF w.app.temp_pages = <<>> THEN w
    ELSE start_processing(w, w.app.temp_pages, w.app.confidence_threshold,
                          Strip(w.app.lang_input))

start_ocr_processing(w) ==
    IF w.app.temp_pages = <<>> THEN w
    ELSE LET lang_string == Strip(w.app.lang_input)
         IN  IF lang_string = <<>>
             THEN start_processing([w EXCEPT !.app.lang_input = DefaultLang],
                                   w.app.temp_pages, w.app.confidence_threshold, DefaultLang)
             ELSE start_processing(w, w.app.temp_pages, w.app.confidence_threshold,
                                   lang_string)

rerun_ocr(w) ==
    IF w.app.temp_pages = <<>> THEN w
    ELSE LET a1 == save_current_page_text(w.app)
             a2 == [a1 EXCEPT !.ocr_data_cache = EmptyDict,
                              !.text_cache = EmptyDict,
                              !.text_modified = EmptyDict]
             a3 == [set_ui_enabled(a2, FALSE) EXCEPT !.highlight_items = <<>>]
             a4 == SetTextConnected(a3, RerunMsg)
         IN  start_ocr_processing([w EXCEPT !.app = a4])

on_pdf_converted(w, temp_paths) ==
    LET a1 == [w.app EXCEPT !.temp_pages = temp_paths]
    IN  IF a1.temp_pages # <<>>
        THEN start_ocr_processing(
                 [w EXCEPT !.app = display_image_only(
                                       [a1 EXCEPT !.nav_btn = Len(a1.temp_pages) > 1])])
        ELSE [w EXCEPT !.app = on_processing_error(a1)]

\* process_file up to the branch on the file type
ProcessFileReset(w) ==
    LET a1 == clear_temp_pages(w.app)
        a2 == SetTextConnected(a1, <<>>)
        a3 == [a2 EXCEPT !.current_page_index = 0,
                         !.highlight_items = <<>>,
                         !.ocr_data_cache = EmptyDict,
                         !.text_cache = EmptyDict,
                         !.text_modified = EmptyDict]
    IN  [w EXCEPT !.mgr = stop_all(@), !.app = set_ui_enabled(a3, FALSE)]

process_file(w, file_path) ==
    LET w1 == ProcessFileReset(w)
    IN  IF IsPdf(file_path)
        THEN [w1 EXCEPT !.app.pdf_worker = Len(workers) + 1]
        ELSE start_ocr_processing(
                 [w1 EXCEPT !.app = display_image_only(
                                        [@ EXCEPT !.temp_pages = <<UserPath(file_path)>>,
                                                  !.nav_btn = FALSE])])

----------------------------------------------------------------------------
(* PDFConversionWorker *)

PDFConversionWorker(pdf_path, load) ==
    [pdf_path |-> pdf_path, load |-> load, should_stop |-> FALSE,
     pc |-> "convert", i |-> 0, temp_paths |-> <<>>]

\* max_dimension of PDFConversionWorker.run
max_dimension == 4000

\* the size of the page that is saved: page.size, or the (new_width, new_height)
\* handed to page.resize.  int((a * max_dimension) / b) is the integer quotient:
\* the operands are far below 2^53 and a fraction with denominator b cannot round
\* up to an integer in the float division
ResizedSize(width, height) ==
    IF width > max_dimension \/ height > max_dimension
    THEN IF width > height
         THEN <<max_dimension, (height * max_dimension) \div width>>
         ELSE <<(width * max_dimension) \div height, max_dimension>>
    ELSE <<width, height>>

\* QThread.isRunning()
IsRunning(worker) == worker.pc # "done"

\* PDFConversionWorker.stop() on the application's worker, when it is running
StopWorker(ws, id) ==
    IF id # 0 /\ IsRunning(ws[id]) THEN [ws EXCEPT ![id].should_stop = TRUE] ELSE ws

----------------------------------------------------------------------------
(* State, and the history variable the properties read *)

World == [app |-> app, mgr |-> mgr, hist |-> hist]

\* the new state of the objects of a world, after the handler `op`; no handler
\* runs once the window is closed
Commit(w, op) ==
    /\ hist.lastOp # "closeEvent"
    /\ app' = w.app
    /\ mgr' = w.mgr
    /\ hist' = [w.hist EXCEPT !.lastOp = op]
    /\ UNCHANGED calc

\* the objects after construction, on a machine whose pool gets `threads` threads
InitWith(threads) ==
    /\ app = [temp_pages |-> <<>>, current_page_index |-> 0, highlight_items |-> <<>>,
              ocr_data_cache |-> EmptyDict, text_cache |-> EmptyDict,
              text_modified |-> EmptyDict, confidence_threshold |-> 0,
              pdf_worker |-> 0, text_edit |-> <<>>,
              rerun_ocr_btn |-> FALSE, reset_text_btn |-> FALSE,
              confidence_spinbox |-> TRUE, nav_btn |-> FALSE,
              lang_input |-> DefaultLang, lang_enabled |-> TRUE]
    /\ mgr = [total_pages |-> 0, completed_pages |-> 0, connections |-> 0, run |-> 0,
              queue |-> <<>>, running |-> {}, max_thread_count |-> threads]
    /\ events = <<>>
    /\ workers = <<>>
    /\ disk = {UserPath(f) : f \in Documents}
    /\ hist = [lastOp |-> "init",
               reported |-> [r \in Runs |-> {}],
               failed |-> [r \in Runs |-> {}],
               completeEmits |-> [r \in Runs |-> 0],
               earlyEmit |-> [r \in Runs |-> FALSE],
               progress |-> 0, loads |-> 0]

InitProgram == InitWith(MaxThreadCount)

Init == InitProgram /\ calc = [op |-> "none"]

----------------------------------------------------------------------------
(* The user's operations (GUI thread) *)

\* open_file / dropEvent -> process_file
OpenFile(file_path) ==
    /\ IsPdf(file_path) \/ mgr.run < MaxRuns
    /\ LET stopped == StopWorker(workers, app.pdf_worker)
       IN  workers' = IF IsPdf(file_path)
                      THEN Append(stopped, PDFConversionWorker(file_path, hist.loads + 1))
                      ELSE stopped
    /\ disk' = disk \ RemovedByClear(app)
    /\ Commit([process_file(World, file_path) EXCEPT !.hist.loads = @ + 1],
              "process_file")
    /\ UNCHANGED events

ProcessFile(file_path) == hist.loads < MaxLoads /\ OpenFile(file_path)

\* the same, for a user who opens one document after another
ReplaceFile(file_path) == hist.loads < MaxReloads /\ OpenFile(file_path)

\* the user closes the window: OCRApp.closeEvent
CloseEvent ==
    /\ workers' = StopWorker(workers, app.pdf_worker)
    /\ disk' = disk \ RemovedByClear(app)
    /\ Commit([World EXCEPT !.mgr = stop_all(@), !.app = clear_temp_pages(@)],
              "closeEvent")
    /\ UNCHANGED events

\* the user types into the language field
EditLanguage(text) ==
    /\ app.lang_enabled
    /\ text # app.lang_input
    /\ Commit([World EXCEPT !.app.lang_input = text], "lang_input")
    /\ UNCHANGED <<events, workers, disk>>

\* the Re-Run OCR button
RerunOcr ==
    /\ app.rerun_ocr_btn
    /\ mgr.run < MaxRuns
    /\ Commit(rerun_ocr(World), "rerun_ocr")
    /\ UNCHANGED <<events, workers, disk>>

\* the user types in the editor: textChanged -> on_text_edited
UserEdit(text) ==
    /\ text # app.text_edit
    /\ Commit([World EXCEPT !.app = SetTextConnected(@, text)], "user_edit")
    /\ UNCHANGED <<events, workers, disk>>

\* the Reset Text button
ResetText ==
    /\ app.reset_text_btn
    /\ Commit([World EXCEPT !.app = reset_current_text(@)], "reset_current_text")
    /\ UNCHANGED <<events, workers, disk>>

\* the confidence spin box: valueChanged -> on_confidence_changed
ConfidenceChanged(value) ==
    /\ app.confidence_spinbox
    /\ value # app.confidence_threshold
    /\ Commit([World EXCEPT !.app = on_confidence_changed(@, value)],
              "on_confidence_changed")
    /\ UNCHANGED <<events, workers, disk>>

PrevPage ==
    /\ app.nav_btn
    /\ Commit([World EXCEPT !.app = prev_page(@)], "prev_page")
    /\ UNCHANGED <<events, workers, disk>>

NextPage ==
    /\ app.nav_btn
    /\ Commit([World EXCEPT !.app = next_page(@)], "next_page")
    /\ UNCHANGED <<events, workers, disk>>

\* the Export Text menu entry
ExportText ==
    /\ Commit([World EXCEPT !.app = export_text(@)], "export_text")
    /\ UNCHANGED <<events, workers, disk>>

----------------------------------------------------------------------------
(* The pool threads: OCRTask.run *)

\* what OCRTask.run emits: page_processed on success, error_occurred on failure
TaskEvent(task, ok) ==
    IF ok
    THEN LET ocr_data == EngineOutput(task.image_path)
         IN  [sig |-> "page_processed", run |-> task.run, page_index |-> task.page_index,
              text |-> Join(NL, extract_text_lines(ocr_data, task.confidence_threshold)),
              ocr_data |-> ocr_data]
    ELSE [sig |-> "error_occurred", run |-> task.run, page_index |-> task.page_index]

\* where OCRTask.run can raise: Image.open, image_to_data, extract_text_lines
Faults == {"none", "open", "engine", "lines"}

\* OCRTask.run in which the handler of the engine error does not return: the
\* statements after it raise on the unbound ocr_data and the outer handler emits again
OCRTask_run_without_return(task, fault) ==
    IF fault = "none" THEN <<TaskEvent(task, TRUE)>>
    ELSE IF fault = "engine" THEN <<TaskEvent(task, FALSE), TaskEvent(task, FALSE)>>
    ELSE <<TaskEvent(task, FALSE)>>

\* the signals OCRTask.run emits, in order.  An exception of Image.open or of
\* extract_text_lines reaches the outer except, which emits error_occurred; an
\* exception of image_to_data is handled by the inner except, which emits
\* error_occurred and returns; otherwise page_processed is emitted
OCRTask_run(task, fault) ==
    IF fault = "open" THEN <<TaskEvent(task, FALSE)>>
    ELSE IF fault = "engine" THEN <<TaskEvent(task, FALSE)>>
    ELSE IF fault = "lines" THEN <<TaskEvent(task, FALSE)>>
    ELSE <<TaskEvent(task, TRUE)>>

\* a pool in which a failing task takes the queued tasks down with it
TaskFinish_cancelling(task, ok) ==
    /\ task \in mgr.running
    /\ events' = Append(events, TaskEvent(task, ok))
    /\ mgr' = IF mgr.queue = <<>> \/ ~ok
              THEN [mgr EXCEPT !.running = @ \ {task}, !.queue = <<>>]
              ELSE [mgr EXCEPT !.running = (@ \ {task}) \cup {Head(mgr.queue)},
                               !.queue = Tail(@)]
    /\ UNCHANGED <<app, workers, disk, hist, calc>>

\* a running task ends; its thread takes the next queued task
TaskFinish(task, ok) ==
    /\ task \in mgr.running
    /\ \E fault \in Faults :
           /\ ok <=> fault = "none"
           /\ events' = events \o OCRTask_run(task, fault)
    /\ mgr' = IF mgr.queue = <<>>
              THEN [mgr EXCEPT !.running = @ \ {task}]
              ELSE [mgr EXCEPT !.running = (@ \ {task}) \cup {Head(mgr.queue)},
                               !.queue = Tail(@)]
    /\ UNCHANGED <<app, workers, disk, hist, calc>>

----------------------------------------------------------------------------
(* The conversion thread: PDFConversionWorker.run *)

\* convert_from_path returns the pages, or raises
WorkerConvert(id, ok) ==
    /\ id \in DOMAIN workers
    /\ workers[id].pc = "convert"
    /\ IF ok
       THEN /\ workers' = [workers EXCEPT ![id].pc = "loop"]
            /\ UNCHANGED events
       ELSE /\ workers' = [workers EXCEPT ![id].pc = "done"]
            /\ events' = Append(events, [sig |-> "pdf_error", worker |-> id])
    /\ UNCHANGED <<app, mgr, disk, hist, calc>>

\* one iteration of the page loop: the should_stop poll, then the page is written
WorkerPage(id) ==
    /\ id \in DOMAIN workers
    /\ workers[id].pc = "loop"
    /\ workers[id].i < NumPages(workers[id].pdf_path)
    /\ LET wk == workers[id]
           tmp_path == TempPath(wk.pdf_path, wk.i, wk.load)
       IN  IF wk.should_stop
           THEN /\ disk' = disk \ {wk.temp_paths[k] : k \in 1..Len(wk.temp_paths)}
                /\ workers' = [workers EXCEPT ![id].pc = "done"]
           ELSE /\ disk' = disk \cup {tmp_path}
                /\ workers' = [workers EXCEPT ![id].temp_paths = Append(@, tmp_path),
                                              ![id].i = @ + 1]
    /\ UNCHANGED <<app, mgr, events, hist, calc>>

\* after the loop: pages_converted.emit(temp_paths)
WorkerEmit(id) ==
    /\ id \in DOMAIN workers
    /\ workers[id].pc = "loop"
    /\ workers[id].i = NumPages(workers[id].pdf_path)
    /\ events' = Append(events, [sig |-> "pages_converted", worker |-> id,
                                 temp_paths |-> workers[id].temp_paths])
    /\ workers' = [workers EXCEPT ![id].pc = "done"]
    /\ UNCHANGED <<app, mgr, disk, hist, calc>>

----------------------------------------------------------------------------
(* The GUI thread's event loop delivers the queued signals in emission order *)

Report(w, ev) == [w EXCEPT !.hist.reported[ev.run] = @ \cup {ev.page_index}]

ReportFailure(w, ev) == [Report(w, ev) EXCEPT !.hist.failed[ev.run] = @ \cup {ev.page_index}]

\* page_processed: OCRApp.on_page_processed, then every on_page_completed connection
DeliverPageProcessed ==
    /\ events # <<>>
    /\ Head(events).sig = "page_processed"
    /\ LET ev == Head(events)
           w1 == Report([World EXCEPT !.app = on_page_processed(@, ev.page_index,
                                                               ev.text, ev.ocr_data)], ev)
       IN  Commit(CallCompletedSlots(w1, w1.mgr.connections), "deliver_page_processed")
    /\ events' = Tail(events)
    /\ UNCHANGED <<workers, disk>>

\* error_occurred of a task: OCRApp.on_processing_error
DeliverTaskError ==
    /\ events # <<>>
    /\ Head(events).sig = "error_occurred"
    /\ LET ev == Head(events)
       IN  Commit(ReportFailure([World EXCEPT !.app = on_processing_error(@)], ev),
                  "deliver_error_occurred")
    /\ events' = Tail(events)
    /\ UNCHANGED <<workers, disk>>

\* pages_converted: OCRApp.on_pdf_converted
DeliverPagesConverted ==
    /\ events # <<>>
    /\ Head(events).sig = "pages_converted"
    /\ mgr.run < MaxRuns
    /\ Commit(on_pdf_converted(World, Head(events).temp_paths),
              "deliver_pages_converted")
    /\ events' = Tail(events)
    /\ UNCHANGED <<workers, disk>>

\* error_occurred of the conversion worker: OCRApp.on_processing_error
DeliverPdfError ==
    /\ events # <<>>
    /\ Head(events).sig = "pdf_error"
    /\ Commit([World EXCEPT !.app = on_processing_error(@)], "deliver_pdf_error")
    /\ events' = Tail(events)
    /\ UNCHANGED <<workers, disk>>

----------------------------------------------------------------------------

Next ==
    \/ \E f \in Files : ProcessFile(f)
    \/ RerunOcr
    \/ \E t \in EditTexts : UserEdit(t)
    \/ ResetText
    \/ \E v \in Thresholds : ConfidenceChanged(v)
    \/ PrevPage
    \/ NextPage
    \/ ExportText
    \/ \E task \in mgr.running, ok \in BOOLEAN : TaskFinish(task, ok)
    \/ \E id \in DOMAIN workers, ok \in BOOLEAN : WorkerConvert(id, ok)
    \/ \E id \in DOMAIN workers : WorkerPage(id)
    \/ \E id \in DOMAIN workers : WorkerEmit(id)
    \/ DeliverPageProcessed
    \/ DeliverTaskError
    \/ DeliverPagesConverted
    \/ DeliverPdfError

Spec == Init /\ [][Next]_vars

----------------------------------------------------------------------------
(* Line reconstruction and highlight selection applied on their own, to every  *)
(* word list of at most MaxWords boxes                                         *)

\* the word of box i, when it is not blank: a letter that names its position
WordLetters == <<"a", "b", "c", "d", "e">>

\* a box is blank or holds its padded word; its confidence is at a threshold,
\* one above it, or unparsable; its (block_num, par_num, line_num) is one of three
BoxChoices ==
    [blank : BOOLEAN, conf : {Num(50), Num(51), NoConf},
     key : {<<1, 1, 1>>, <<1, 1, 2>>, <<2, 1, 1>>}]

\* pytesseract.image_to_data(..., output_type=Output.DICT) for the chosen boxes
WordData(boxes) ==
    [text      |-> [i \in 1..Len(boxes) |->
                       IF boxes[i].blank THEN <<SP>> ELSE <<SP, WordLetters[i]>>],
     conf      |-> [i \in 1..Len(boxes) |-> boxes[i].conf],
     block_num |-> [i \in 1..Len(boxes) |-> boxes[i].key[1]],
     par_num   |-> [i \in 1..Len(boxes) |-> boxes[i].key[2]],
     line_num  |-> [i \in 1..Len(boxes) |-> boxes[i].key[3]]]

WordLists == {WordData(boxes) : boxes \in UNION {[1..n -> BoxChoices] : n \in 0..MaxWords}}

\* pairs t1 < t2 of values of the confidence spin box (0..100)
ThresholdPairs == {<<0, 50>>, <<50, 100>>}

InitLines ==
    /\ InitProgram
    /\ calc \in {[op |-> "words", data |-> d, t1 |-> p[1], t2 |-> p[2]] :
                    d \in WordLists, p \in ThresholdPairs}

\* OCRTask.extract_text_lines, OCRApp.extract_text_lines_from_data and the loop of
\* add_bounding_boxes, each called on the word list under t1 and under t2
ReconstructLines ==
    /\ calc.op = "words"
    /\ calc' = [op |-> "lines", data |-> calc.data, t1 |-> calc.t1, t2 |-> calc.t2,
                lines1 |-> extract_text_lines(calc.data, calc.t1),
                lines2 |-> extract_text_lines(calc.data, calc.t2),
                app_lines1 |-> extract_text_lines_from_data(calc.data, calc.t1),
                app_lines2 |-> extract_text_lines_from_data(calc.data, calc.t2),
                boxes1 |-> BoxesLoop(calc.data, calc.t1, 1, <<>>),
                boxes2 |-> BoxesLoop(calc.data, calc.t2, 1, <<>>)]
    /\ UNCHANGED <<app, mgr, events, workers, disk, hist>>

NextLines == ReconstructLines

SpecLines == InitLines /\ [][NextLines]_vars

----------------------------------------------------------------------------
(* The resize step of PDFConversionWorker.run applied on its own, to rendered   *)
(* pages of every size built from PageSides                                     *)

\* widths and heights, in pixels, of the pages convert_from_path returns
PageSides == {1, 3, 2000, 3000, 4000, 4001, 6000, 6001, 8000, 8001}

InitResize ==
    /\ InitProgram
    /\ calc \in {[op |-> "page", width |-> w, height |-> h] : w, h \in PageSides}

\* width, height = page.size; the resize when a side exceeds max_dimension; page.save
ResizePage ==
    /\ calc.op = "page"
    /\ calc' = [op |-> "saved", width |-> calc.width, height |-> calc.height,
                size |-> ResizedSize(calc.width, calc.height)]
    /\ UNCHANGED <<app, mgr, events, workers, disk, hist>>

NextResize == ResizePage

SpecResize == InitResize /\ [][NextResize]_vars

----------------------------------------------------------------------------
(* The rendering step of PDFConversionWorker.run applied on its own, on every   *)
(* platform and for every outcome of the two convert_from_path calls            *)

\* platform.system() of the machine
Platforms == {"Windows", "Linux", "Darwin"}

\* the exceptions convert_from_path raises: size_limit tells whether the raster
\* exceeded the pixel-count limit, msg is str(error) as a sequence of phrases
RenderErrors ==
    { [ok |-> FALSE, size_limit |-> TRUE,
       msg |-> <<"Image size", "exceeds limit", "could be", "decompression bomb", "DOS attack">>],
      [ok |-> FALSE, size_limit |-> TRUE, msg |-> <<"Image size", "exceeds limit">>],
      [ok |-> FALSE, size_limit |-> TRUE, msg |-> <<"decompression bomb", "DOS attack">>],
      [ok |-> FALSE, size_limit |-> FALSE, msg |-> <<"Unable to get page count.">>],
      [ok |-> FALSE, size_limit |-> FALSE,
       msg |-> <<"Unable to get page count.", "Is poppler installed and in PATH?">>] }

\* what a convert_from_path call does: it returns 1..MaxPages pages, or raises
RenderOutcomes == {[ok |-> TRUE, pages |-> n] : n \in 1..MaxPages} \cup RenderErrors

\* phrase in str(error)
Contains(msg, phrase) == \E k \in 1..Len(msg) : msg[k] = phrase

\* str of the UnboundLocalError of len(pages) when no branch has assigned pages
UnboundPages == <<"local variable 'pages' referenced before assignment">>

\* the convert_from_path call of the first try block, if the platform has one
StandardCall(platform) ==
    IF platform = "Windows"
    THEN <<[dpi |-> 300, poppler_path |-> "binary/windows/poppler/Library/bin"]>>
    ELSE IF platform = "Linux"
    THEN <<[dpi |-> 300, poppler_path |-> "PATH"]>>
    ELSE <<>>

\* the convert_from_path call of the except block, if the platform has one
LowerDpiCall(platform) ==
    IF platform = "Windows"
    THEN <<[dpi |-> 150, poppler_path |-> "binary/windows/poppler/bin"]>>
    ELSE IF platform = "Linux"
    THEN <<[dpi |-> 150, poppler_path |-> "PATH"]>>
    ELSE <<>>

\* the rendering of run(): the calls made, the number of pages the loop gets, and
\* the message of the exception that reaches the outer except (<<>> if none)
RenderPdf(platform, first, second) ==
    LET standard == StandardCall(platform)
        lower    == LowerDpiCall(platform)
    IN  IF standard = <<>>
        THEN [attempts |-> <<>>, pages |-> 0, error |-> UnboundPages]
        ELSE IF first.ok
        THEN [attempts |-> standard, pages |-> first.pages, error |-> <<>>]
        ELSE IF Contains(first.msg, "exceeds limit") \/ Contains(first.msg, "decompression bomb")
        THEN IF second.ok
             THEN [attempts |-> standard \o lower, pages |-> second.pages, error |-> <<>>]
             ELSE [attempts |-> standard \o lower, pages |-> 0, error |-> second.msg]
        ELSE [attempts |-> standard, pages |-> 0, error |-> first.msg]

InitRender ==
    /\ InitProgram
    /\ calc \in {[op |-> "pdf", platform |-> pl, first |-> o1, second |-> o2] :
                    pl \in Platforms, o1 \in RenderOutcomes, o2 \in RenderOutcomes}

\* the try block of run() up to total_pages = len(pages)
RenderDocument ==
    /\ calc.op = "pdf"
    /\ calc' = [op |-> "rendered", platform |-> calc.platform, first |-> calc.first,
                second |-> calc.second,
                render |-> RenderPdf(calc.platform, calc.first, calc.second)]
    /\ UNCHANGED <<app, mgr, events, workers, disk, hist>>

NextRender == RenderDocument

SpecRender == InitRender /\ [][NextRender]_vars

----------------------------------------------------------------------------
(* The thread pool under load: a PDF of BookPages pages on machines of every    *)
(* CPU count up to PoolCpus; calc holds os.cpu_count() (0 when it is None)      *)

InitPool ==
    \E cpu_count \in 0..PoolCpus :
        /\ InitWith(ThreadCountFor(cpu_count))
        /\ calc = [op |-> "machine", cpu_count |-> cpu_count]

NextPool ==
    \/ ProcessFile("book.pdf")
    \/ \E task \in mgr.running, ok \in BOOLEAN : TaskFinish(task, ok)
    \/ \E id \in DOMAIN workers, ok \in BOOLEAN : WorkerConvert(id, ok)
    \/ \E id \in DOMAIN workers : WorkerPage(id)
    \/ \E id \in DOMAIN workers : WorkerEmit(id)
    \/ DeliverPageProcessed
    \/ DeliverTaskError
    \/ DeliverPagesConverted
    \/ DeliverPdfError

SpecPool == InitPool /\ [][NextPool]_vars

\* the recognition runs of one document on pools of one and of two threads, with
\* the language field: no edit of the text, no threshold change, no page turn
InitRuns ==
    /\ \E cpu_count \in 0..CpuCount : InitWith(ThreadCountFor(cpu_count))
    /\ calc = [op |-> "none"]

NextRuns ==
    \/ \E f \in Files : ProcessFile(f)
    \/ \E l \in LangInputs : EditLanguage(l)
    \/ RerunOcr
    \/ \E task \in mgr.running, ok \in BOOLEAN : TaskFinish(task, ok)
    \/ \E id \in DOMAIN workers, ok \in BOOLEAN : WorkerConvert(id, ok)
    \/ \E id \in DOMAIN workers : WorkerPage(id)
    \/ \E id \in DOMAIN workers : WorkerEmit(id)
    \/ DeliverPageProcessed
    \/ DeliverTaskError
    \/ DeliverPagesConverted
    \/ DeliverPdfError

SpecRuns == InitRuns /\ [][NextRuns]_vars

\* one document replaces another: the loads, the page turns, and the pipeline
NextLoads ==
    \/ \E f \in Documents : ReplaceFile(f)
    \/ CloseEvent
    \/ PrevPage
    \/ NextPage
    \/ \E task \in mgr.running, ok \in BOOLEAN : TaskFinish(task, ok)
    \/ \E id \in DOMAIN workers, ok \in BOOLEAN : WorkerConvert(id, ok)
    \/ \E id \in DOMAIN workers : WorkerPage(id)
    \/ \E id \in DOMAIN workers : WorkerEmit(id)
    \/ DeliverPageProcessed
    \/ DeliverTaskError
    \/ DeliverPagesConverted
    \/ DeliverPdfError

SpecLoads == Init /\ [][NextLoads]_vars

----------------------------------------------------------------------------
(* Vocabulary of the properties *)

\* the page indices of the loaded document
PageIndices(a) == 0..(Len(a.temp_pages) - 1)

\* the text of record of page i: the editor for the page on display (prev_page,
\* next_page and export_text save the editor into text_cache before they read it),
\* text_cache for every other page
TextOfRecord(a, i) ==
    IF i = a.current_page_index THEN a.text_edit
    ELSE IF i \in DOMAIN a.text_cache THEN a.text_cache[i]
    ELSE ProcessingMsg

\* the reconstruction of page i's cached words under the current threshold
Reconstructed(a, i) ==
    Join(NL, extract_text_lines_from_data(a.ocr_data_cache[i], a.confidence_threshold))

\* this step is the GUI thread handling the queued signal `sig`
Delivered(sig) == events # <<>> /\ Head(events).sig = sig /\ events' = Tail(events)

\* this step is the GUI-thread handler `op`
Handled(op) == hist'.lastOp = op /\ <<app, mgr, hist>> # <<app', mgr', hist'>>

\* the tasks of a pool, queued or executing
TasksOf(m) == m.running \cup {m.queue[k] : k \in 1..Len(m.queue)}

PoolTasks == TasksOf(mgr)

----------------------------------------------------------------------------
(* Properties *)

\* C1: once every page of the current run has reported, by page_processed or by
\* error_occurred, processing_complete has been emitted for that run.
C1_CompleteAfterAllReported ==
    (mgr.run >= 1 /\ hist.reported[mgr.run] = 0..(mgr.total_pages - 1))
        => hist.completeEmits[mgr.run] >= 1

\* C2: processing_complete is emitted at most once for a run, and only when every
\* page of that run has reported.
C2_CompleteExactlyOnce ==
    \A r \in Runs : hist.completeEmits[r] <= 1 /\ ~hist.earlyEmit[r]

\* C3: a recognition result that arrives for a page marked edited leaves the page's
\* text of record as it was (stated for an edit the user typed).
C3_ResultKeepsEditedText ==
    [][ (/\ Delivered("page_processed")
         /\ Head(events).page_index \in PageIndices(app)
         /\ IsModified(app, Head(events).page_index)
         /\ TextOfRecord(app, Head(events).page_index) \in EditTexts)
        => TextOfRecord(app', Head(events).page_index)
               = TextOfRecord(app, Head(events).page_index) ]_vars

\* C4: a change of the confidence threshold leaves the text of record of every
\* page marked edited as it was.
C4_ThresholdKeepsEditedText ==
    [][ Handled("on_confidence_changed")
        => \A i \in PageIndices(app) :
               IsModified(app, i) => TextOfRecord(app', i) = TextOfRecord(app, i) ]_vars

\* C4 witness: the threshold was just changed while the page on display, recognized
\* and then edited by the user, holds a text that its reconstruction would replace.
C4_Witness ==
    /\ hist.lastOp = "on_confidence_changed"
    /\ app.current_page_index \in DOMAIN app.ocr_data_cache
    /\ IsModified(app, app.current_page_index)
    /\ app.text_edit \in EditTexts
    /\ app.text_edit # Reconstructed(app, app.current_page_index)
    /\ app.text_cache[app.current_page_index] # Reconstructed(app, app.current_page_index)

\* C5: reset_current_text on an edited page with cached OCR data leaves the page
\* not edited and showing the reconstruction of its words under the current threshold.
C5_ResetRestoresReconstruction ==
    [][ (/\ Handled("reset_current_text")
         /\ IsModified(app, app.current_page_index)
         /\ app.current_page_index \in DOMAIN app.ocr_data_cache)
        => /\ ~IsModified(app', app'.current_page_index)
           /\ app'.text_edit = Reconstructed(app', app'.current_page_index) ]_vars

\* C6: right after a threshold change, the cached text of every page with cached
\* OCR data and not marked edited is the reconstruction under the new threshold.
C6_ThresholdRefreshesEveryPage ==
    hist.lastOp = "on_confidence_changed"
        => \A i \in DOMAIN app.ocr_data_cache :
               ~IsModified(app, i) => app.text_cache[i] = Reconstructed(app, i)

\* C7: every page with cached OCR data and not marked edited has, as its text of
\* record, the reconstruction of its words under the current threshold.
C7_UneditedTextIsCurrentReconstruction ==
    \A i \in PageIndices(app) \cap DOMAIN app.ocr_data_cache :
        ~IsModified(app, i) => TextOfRecord(app, i) = Reconstructed(app, i)

\* C8: after rerun_ocr and until a result is delivered, no page is marked edited
\* and no page has cached text or cached OCR data.
C8_RerunClearsEveryPage ==
    hist.lastOp = "rerun_ocr"
        => \A i \in PageIndices(app) :
               /\ ~IsModified(app, i)
               /\ i \notin DOMAIN app.text_cache
               /\ i \notin DOMAIN app.ocr_data_cache

\* C9: the result of a task of a superseded run changes neither the caches, nor the
\* editor, nor the completed_pages counter.
C9_StaleResultIgnored ==
    [][ (Delivered("page_processed") /\ Head(events).run < mgr.run)
        => /\ app'.ocr_data_cache = app.ocr_data_cache
           /\ app'.text_cache = app.text_cache
           /\ app'.text_edit = app.text_edit
           /\ mgr'.completed_pages = mgr.completed_pages ]_vars

\* C10: the tasks queued or executing in the pool all belong to one run.
C10_OneRunInPool ==
    \A t1, t2 \in PoolTasks : t1.run = t2.run

\* C11: every key of ocr_data_cache, of text_cache and of text_modified is a page
\* index of the document that is loaded: 0 <= i < len(temp_pages).
C11_CacheKeysArePageIndices ==
    (DOMAIN app.ocr_data_cache \cup DOMAIN app.text_cache \cup DOMAIN app.text_modified)
        \subseteq PageIndices(app)

\* C12: whenever a document is loaded, the index of the page on display is one of
\* its page indices: 0 <= current_page_index < len(temp_pages).
C12_CurrentPageIndexInRange ==
    app.temp_pages # <<>> => app.current_page_index \in PageIndices(app)

\* the current run is the run of the document that is loaded, and page i of it failed
FailedInCurrentRun(i) ==
    /\ mgr.run >= 1
    /\ app.temp_pages # <<>>
    /\ Len(app.temp_pages) = mgr.total_pages
    /\ i \in hist.failed[mgr.run]

\* page j of the current run still has its task in the pool, or its signal in the
\* event queue, or has reported
Accounted(j) ==
    \/ \E t \in PoolTasks : t.run = mgr.run /\ t.page_index = j
    \/ \E k \in 1..Len(events) :
           /\ events[k].sig \in {"page_processed", "error_occurred"}
           /\ events[k].run = mgr.run
           /\ events[k].page_index = j
    \/ j \in hist.reported[mgr.run]

\* C13: the recognition failure of page i neither cancels nor blocks the task of
\* another page j of the run: the task of j stays in the pool until it has run and
\* reports, and when it succeeds the words of page j and the text reconstructed
\* from them are cached under index j.
C13_FailureLeavesOtherPagesAlone ==
    /\ [](\A i, j \in PageIndices(app) :
              (FailedInCurrentRun(i) /\ j # i) => Accounted(j))
    /\ [][ \A i, j \in PageIndices(app) :
              (/\ FailedInCurrentRun(i) /\ j # i
               /\ Delivered("page_processed")
               /\ Head(events).run = mgr.run
               /\ Head(events).page_index = j)
              => /\ j \in DOMAIN app'.ocr_data_cache
                 /\ app'.ocr_data_cache[j] = EngineOutput(app.temp_pages[j + 1])
                 /\ j \in DOMAIN app'.text_cache
                 /\ \E t \in Thresholds :
                        app'.text_cache[j] =
                            Join(NL, extract_text_lines(EngineOutput(app.temp_pages[j + 1]), t))
          ]_vars

\* C13 witness: page 0 of the run has failed, and the result of page 1, delivered
\* after that failure, is in the caches.
C13_Witness ==
    /\ hist.lastOp = "deliver_page_processed"
    /\ FailedInCurrentRun(0)
    /\ 1 \in hist.reported[mgr.run] \ hist.failed[mgr.run]
    /\ 1 \in DOMAIN app.ocr_data_cache
    /\ 1 \in DOMAIN app.text_cache

\* the export format as the specification words it: for each page its marker line,
\* its text and a line break, and one blank line between consecutive pages
RECURSIVE PageSections(_, _, _)
PageSections(texts, i, n) ==
    IF i > n THEN <<>>
    ELSE PageMarker(i) \o <<NL>> \o texts[i] \o <<NL>>
         \o (IF i < n THEN <<NL>> ELSE <<>>)
         \o PageSections(texts, i + 1, n)

\* every page of the loaded document has a text of record to export
EveryPageHasText(a) ==
    /\ a.temp_pages # <<>>
    /\ a.current_page_index \in PageIndices(a)
    /\ \A i \in PageIndices(a) : i = a.current_page_index \/ i \in DOMAIN a.text_cache

\* a document of two pages whose texts of record are "A" and "B"
TwoPageExample ==
    [app EXCEPT !.temp_pages = <<TempPath("doc.pdf", 0, 1), TempPath("doc.pdf", 1, 1)>>,
                !.current_page_index = 0,
                !.text_edit = <<"A">>,
                !.text_cache = Put(Put(EmptyDict, 0, <<"A">>), 1, <<"B">>)]

\* C14: for a document of N >= 1 pages with texts of record T_1..T_N the exported
\* text is, for i = 1..N, the line "=== Page i ===", T_i and a line break, with one
\* blank line between consecutive pages and none after the last, whichever pages
\* are edited; for the texts A and B it is "=== Page 1 ===\nA\n\n=== Page 2 ===\nB\n".
C14_ExportFormat ==
    /\ EveryPageHasText(app)
           => ExportedText(app) =
                  PageSections([i \in 1..Len(app.temp_pages) |-> TextOfRecord(app, i - 1)],
                               1, Len(app.temp_pages))
    /\ ExportedText(TwoPageExample) =
           <<"=== Page ", "1", " ===", NL, "A", NL, NL,
             "=== Page ", "2", " ===", NL, "B", NL>>

\* C14 witness: export_text has just run on a document of two pages, one of them
\* holding a text the user typed and the other its reconstruction.
C14_Witness ==
    /\ hist.lastOp = "export_text"
    /\ Len(app.temp_pages) = 2
    /\ EveryPageHasText(app)
    /\ \E i, j \in PageIndices(app) :
           /\ IsModified(app, i) /\ TextOfRecord(app, i) \in EditTexts
           /\ ~IsModified(app, j) /\ j \in DOMAIN app.ocr_data_cache
           /\ TextOfRecord(app, j) = Reconstructed(app, j)

\* C15: the text the export puts under the marker of page i is the text of record
\* of page i: the edited text, else the reconstruction, else, while the page has no
\* result, the placeholder the display of page i shows.
C15_ExportIsTextOfRecord ==
    (app.temp_pages # <<>> /\ app.current_page_index \in PageIndices(app))
        => \A i \in PageIndices(app) : ExportedPageText(app, i) = TextOfRecord(app, i)

----------------------------------------------------------------------------
(* Properties of line reconstruction *)

Boxes(data) == 1..Len(data.text)

\* the boxes whose word stands in the reconstructed lines
KeptIn(lines, data) ==
    {i \in Boxes(data) :
        \E k \in 1..Len(lines) : \E c \in 1..Len(lines[k]) : lines[k][c] = WordLetters[i]}

\* the boxes add_bounding_boxes has drawn
Drawn(items) == {items[k] : k \in 1..Len(items)}

NonBlank(data, i) == Strip(data.text[i]) # <<>>

\* C16: in line reconstruction and in highlight selection a word with non-empty
\* trimmed text is kept if and only if its confidence, -1 when it is missing or
\* unparsable, is strictly greater than the threshold: a confidence equal to the
\* threshold is excluded, threshold + 1 is included, -1 is always excluded.
C16_KeptIffAboveThreshold ==
    calc.op = "lines"
        => \A i \in Boxes(calc.data) :
               NonBlank(calc.data, i)
                   => /\ i \in KeptIn(calc.lines1, calc.data)
                          <=> ParseConf(calc.data.conf[i]) > calc.t1
                      /\ i \in KeptIn(calc.lines2, calc.data)
                          <=> ParseConf(calc.data.conf[i]) > calc.t2
                      /\ i \in Drawn(calc.boxes1)
                          <=> ParseConf(calc.data.conf[i]) > calc.t1
                      /\ i \in Drawn(calc.boxes2)
                          <=> ParseConf(calc.data.conf[i]) > calc.t2
                      /\ calc.data.conf[i] = Num(calc.t1)
                          => i \notin KeptIn(calc.lines1, calc.data) \cup Drawn(calc.boxes1)
                      /\ calc.data.conf[i] = Num(calc.t1 + 1)
                          => i \in KeptIn(calc.lines1, calc.data) \cap Drawn(calc.boxes1)
                      /\ calc.data.conf[i] = NoConf
                          => i \notin KeptIn(calc.lines1, calc.data) \cup Drawn(calc.boxes1)
                                      \cup KeptIn(calc.lines2, calc.data)
                                      \cup Drawn(calc.boxes2)

\* C16 witness: reconstruction and highlighting were applied under threshold 50 to
\* three non-blank words of confidence 50, 51 and unparsable.
C16_Witness ==
    /\ calc.op = "lines"
    /\ calc.t1 = 50
    /\ \E i, j, k \in Boxes(calc.data) :
           /\ NonBlank(calc.data, i) /\ calc.data.conf[i] = Num(50)
           /\ NonBlank(calc.data, j) /\ calc.data.conf[j] = Num(51)
           /\ NonBlank(calc.data, k) /\ calc.data.conf[k] = NoConf
           /\ KeptIn(calc.lines1, calc.data) = {j}
           /\ Drawn(calc.boxes1) = {j}

\* the boxes a reconstruction under threshold t keeps
KeptBoxes(data, t) ==
    {i \in Boxes(data) : NonBlank(data, i) /\ ParseConf(data.conf[i]) > t}

KeyOf(data, i) == <<data.block_num[i], data.par_num[i], data.line_num[i]>>

\* the maximal run of consecutive kept boxes of one triple that holds box i
RunOf(data, kept, i) ==
    {j \in kept :
        \A k \in kept :
            ((i <= k /\ k <= j) \/ (j <= k /\ k <= i)) => KeyOf(data, k) = KeyOf(data, i)}

\* the elements of a set of numbers in increasing order
Sorted(S) ==
    CHOOSE f \in [1..Cardinality(S) -> S] :
        \A a, b \in 1..Cardinality(S) : a < b => f[a] < f[b]

\* the words of a set of boxes, trimmed, in engine order, joined by single spaces
LineOf(data, run) ==
    Join(SP, [k \in 1..Cardinality(run) |-> Strip(data.text[Sorted(run)[k]])])

\* the maximal runs in the order of their first box, each as a line
RunLines(data, t) ==
    LET kept   == KeptBoxes(data, t)
        starts == Sorted({i \in kept : \A j \in RunOf(data, kept, i) : i <= j})
    IN  [k \in 1..Len(starts) |-> LineOf(data, RunOf(data, kept, starts[k]))]

\* Hello(1,1,1), World(1,1,1), Next(1,1,2), all at confidence 90
HelloWorldNext ==
    [text      |-> << <<"Hello">>, <<"World">>, <<"Next">> >>,
     conf      |-> << Num(90), Num(90), Num(90) >>,
     block_num |-> <<1, 1, 1>>,
     par_num   |-> <<1, 1, 1>>,
     line_num  |-> <<1, 1, 2>>]

\* C17: for every word list and threshold the reconstructed lines are the maximal
\* runs of consecutive kept words, in engine order, of one (block_num, par_num,
\* line_num) triple, each joined by single spaces, in order of first occurrence;
\* Hello, World, Next at threshold 50 give "Hello World", "Next"; when no word is
\* kept the result is the empty sequence.
C17_LinesAreMaximalRuns ==
    /\ calc.op = "lines"
           => /\ calc.lines1 = RunLines(calc.data, calc.t1)
              /\ calc.lines2 = RunLines(calc.data, calc.t2)
              /\ KeptBoxes(calc.data, calc.t1) = {} => calc.lines1 = <<>>
              /\ KeptBoxes(calc.data, calc.t2) = {} => calc.lines2 = <<>>
    /\ extract_text_lines(HelloWorldNext, 50) = << <<"Hello", SP, "World">>, <<"Next">> >>

\* C17 witness: three words were reconstructed into a line of two words and a line
\* of one under t1, and into no line at all under t2.
C17_Witness ==
    /\ calc.op = "lines"
    /\ Cardinality(KeptBoxes(calc.data, calc.t1)) = 3
    /\ Len(calc.lines1) = 2
    /\ \E k \in 1..2 : Len(calc.lines1[k]) = 3
    /\ KeptBoxes(calc.data, calc.t2) = {}
    /\ calc.lines2 = <<>>

\* C18: for thresholds t1 < t2 the set of word positions the reconstruction keeps
\* at t2 is a subset of the set it keeps at t1.
C18_KeptSetShrinks ==
    calc.op = "lines"
        => /\ calc.t1 < calc.t2
           /\ KeptIn(calc.lines2, calc.data) \subseteq KeptIn(calc.lines1, calc.data)

\* C18 witness: of the words kept at t1 some, not all, are kept at t2.
C18_Witness ==
    /\ calc.op = "lines"
    /\ KeptIn(calc.lines2, calc.data) # {}
    /\ KeptIn(calc.lines2, calc.data) # KeptIn(calc.lines1, calc.data)
    /\ KeptIn(calc.lines2, calc.data) \subseteq KeptIn(calc.lines1, calc.data)

\* the words of a line, in order
WordsOf(line) == SelectSeq(line, LAMBDA c : c # SP)

\* the words of a sequence of lines, in order
RECURSIVE Flat(_)
Flat(lines) == IF lines = <<>> THEN <<>> ELSE WordsOf(Head(lines)) \o Flat(Tail(lines))

\* s is t with zero or more elements deleted
RECURSIVE IsSubSeq(_, _)
IsSubSeq(s, t) ==
    IF s = <<>> THEN TRUE
    ELSE IF t = <<>> THEN FALSE
    ELSE IF Head(s) = Head(t) THEN IsSubSeq(Tail(s), Tail(t))
    ELSE IsSubSeq(s, Tail(t))

\* each line of lines2 is one line of lines1 with zero or more words deleted, the
\* lines in the same relative order
LineSubSelection(lines2, lines1) ==
    \E f \in [1..Len(lines2) -> 1..Len(lines1)] :
        /\ \A a, b \in 1..Len(lines2) : a < b => f[a] < f[b]
        /\ \A k \in 1..Len(lines2) : IsSubSeq(WordsOf(lines2[k]), WordsOf(lines1[f[k]]))

\* the boxes of one (block_num, par_num, line_num) triple follow one another in the
\* word list, as in the engine's reading order
TriplesContiguous(data) ==
    \A i, j, k \in Boxes(data) :
        (i < j /\ j < k /\ KeyOf(data, i) = KeyOf(data, k)) => KeyOf(data, j) = KeyOf(data, i)

\* C19 (as stated): for thresholds t1 < t2 each line of the reconstruction at t2 is
\* one line of the reconstruction at t1 with zero or more words deleted, the lines
\* keep their relative order, and no line at t2 holds words of two lines at t1.
C19_LineSubSelection ==
    calc.op = "lines" => LineSubSelection(calc.lines2, calc.lines1)

\* C19 (amended): for thresholds t1 < t2 the words of the reconstruction at t2, read
\* in order, are the words of the reconstruction at t1 with zero or more deleted, so
\* no new text appears; and when the words of each triple follow one another in the
\* word list, each line at t2 is one line at t1 with zero or more words deleted, the
\* lines in the same relative order.
C19_WordSubSelection ==
    calc.op = "lines"
        => /\ IsSubSeq(Flat(calc.lines2), Flat(calc.lines1))
           /\ TriplesContiguous(calc.data) => LineSubSelection(calc.lines2, calc.lines1)

\* C19 witness: a word that stood between two words of another triple is dropped
\* at t2, and the line at t2 joins the words of two lines at t1.
C19_Witness ==
    /\ calc.op = "lines"
    /\ ~TriplesContiguous(calc.data)
    /\ Len(calc.lines1) = 3
    /\ Len(calc.lines2) = 1
    /\ WordsOf(calc.lines2[1]) = WordsOf(calc.lines1[1]) \o WordsOf(calc.lines1[3])
    /\ IsSubSeq(Flat(calc.lines2), Flat(calc.lines1))

----------------------------------------------------------------------------
(* Properties of the page resize *)

Max(a, b) == IF a > b THEN a ELSE b

\* n is a / b rounded to the nearest integer (either neighbour on a tie)
IsNearest(n, a, b) ==
    LET d == n * b - a
    IN  2 * (IF d < 0 THEN 0 - d ELSE d) <= b

\* C20: a rendered page of size w x h with max(w, h) <= 4000 is written unchanged;
\* otherwise the longer side of the written page is 4000 and its other side is the
\* shorter side times 4000 divided by the longer side, rounded to the nearest
\* integer, so both written sides are in 1..4000.
C20_DownscaleRounds ==
    calc.op = "saved"
        => LET w  == calc.width
               h  == calc.height
               nw == calc.size[1]
               nh == calc.size[2]
           IN  IF Max(w, h) <= 4000 THEN <<nw, nh>> = <<w, h>>
               ELSE /\ Max(nw, nh) = 4000
                    /\ (w >= h) => (nw = 4000 /\ IsNearest(nh, h * 4000, w))
                    /\ (h >= w) => (nh = 4000 /\ IsNearest(nw, w * 4000, h))
                    /\ nw \in 1..4000
                    /\ nh \in 1..4000

----------------------------------------------------------------------------
(* Properties of the loads that replace a document *)

\* the page files on disk that the conversion of load n has written
PageFilesOf(n) == {p \in disk : InTempDir(p) /\ p.load = n}

\* C21: when stop() was requested on a conversion before it finished, then once the
\* worker has returned no temporary file of that load attempt is on disk.
C21_StoppedLoadLeavesNoFiles ==
    \A id \in DOMAIN workers :
        (workers[id].should_stop /\ ~IsRunning(workers[id]))
            => PageFilesOf(workers[id].load) = {}

\* C22: a conversion worker on which stop() has been requested never delivers a
\* pages_converted result: its page list does not become temp_pages and starts no
\* recognition run.
C22_StoppedWorkerDeliversNothing ==
    [][ Delivered("pages_converted")
        => ~workers[Head(events).worker].should_stop ]_vars

\* C23: a file the user loaded as a single image is never deleted by the program,
\* wherever it is, the temp directory included, across replacement and shutdown.
C23_UserImageNeverDeleted ==
    \A f \in Documents : ~IsPdf(f) => UserPath(f) \in disk

\* the page files some conversion has written
GeneratedPages == {p \in disk : InTempDir(p) /\ p.load >= 1}

\* C24: after each process_file no page file of an earlier load or load attempt is
\* on disk, and after closeEvent no page file of any load is.
C24_NoPageFilesOfEarlierLoads ==
    /\ hist.lastOp = "process_file" => \A p \in GeneratedPages : p.load = hist.loads
    /\ hist.lastOp = "closeEvent" => GeneratedPages = {}

----------------------------------------------------------------------------
(* Properties of the recognition runs *)

C26_FailedLoadHoldsNoDocument ==
    [][ (/\ Delivered("pdf_error")
         /\ Head(events).worker = app.pdf_worker
         /\ workers[Head(events).worker].load = hist.loads)
        => /\ app'.temp_pages = <<>>
           /\ app'.ocr_data_cache = EmptyDict
           /\ app'.text_cache = EmptyDict
           /\ app'.text_modified = EmptyDict
           /\ mgr'.run = mgr.run
           /\ hist'.lastOp = "deliver_pdf_error" ]_vars

\* the texts a page without a recognition result shows
PendingTexts == {<<>>, ProcessingMsg, RerunMsg}

\* C27: when the recognition of page i of the current run fails, the text of record
\* of page i, as displayed and as exported, is a failure placeholder, not the text
\* of a page whose result is pending, and the records of the other pages are unchanged.
C27_FailedPageShowsFailure ==
    [][ \A i \in PageIndices(app) :
            (/\ Delivered("error_occurred")
             /\ Head(events).run = mgr.run
             /\ Head(events).page_index = i
             /\ Len(app.temp_pages) = mgr.total_pages)
            => /\ TextOfRecord(app', i) \notin PendingTexts
               /\ ExportedPageText(app', i) \notin PendingTexts
               /\ \A j \in PageIndices(app) \ {i} :
                      /\ TextOfRecord(app', j) = TextOfRecord(app, j)
                      /\ ExportedPageText(app', j) = ExportedPageText(app, j) ]_vars

\* the latest run of the loaded document is over: every page has reported and none
\* has failed
RunSucceeded ==
    /\ mgr.run >= 1
    /\ app.temp_pages # <<>>
    /\ hist.reported[mgr.run] = PageIndices(app)
    /\ hist.failed[mgr.run] = {}

\* C28: at the end of a run in which every page succeeds and the user does nothing,
\* the caches are the same whatever the order in which the results arrived: the
\* entry of page i is the engine output for page i and the text reconstructed from
\* it, and the editor shows the text of the current page.
C28_CachesIndependentOfArrivalOrder ==
    RunSucceeded
        => /\ DOMAIN app.ocr_data_cache = PageIndices(app)
           /\ DOMAIN app.text_cache = PageIndices(app)
           /\ \A i \in PageIndices(app) :
                  /\ app.ocr_data_cache[i] = EngineOutput(app.temp_pages[i + 1])
                  /\ app.text_cache[i] =
                         Join(NL, extract_text_lines(EngineOutput(app.temp_pages[i + 1]),
                                                     app.confidence_threshold))
           /\ app.text_edit = app.text_cache[app.current_page_index]

\* the pages of the current run whose result has been handled
Succeeded(h, m) == h.reported[m.run] \ h.failed[m.run]

\* C30: every progress value the manager emits during a run, the first or a later
\* one, is 40 + floor(completed / total * 60) for the pages of that run that have
\* reported so far; it is between 40 and 100, it never decreases within the run,
\* and it is 100 only when every page of the run has reported.
C30_ProgressFollowsReports ==
    [][ (/\ Delivered("page_processed")
         /\ Head(events).run = mgr.run
         /\ mgr.total_pages > 0)
        => /\ hist'.progress =
                  40 + (Cardinality(Succeeded(hist', mgr')) * 60) \div mgr.total_pages
           /\ hist'.progress \in 40..100
           /\ hist'.progress >= hist.progress
           /\ hist'.progress = 100
                  => hist'.reported[mgr.run] = 0..(mgr.total_pages - 1) ]_vars

----------------------------------------------------------------------------
(* Properties of the rendering of a PDF *)

\* C29: the rendering is attempted at 300 DPI first; a second attempt, at 150 DPI,
\* is made if and only if the first fails with a size-limit error, and at most
\* once; any other failure of the first attempt, and any failure of the 150 DPI
\* attempt, ends the load with an error and no pages.
C29_RenderAttempts ==
    calc.op = "rendered"
        => LET r == calc.render
           IN  /\ Len(r.attempts) \in 1..2
               /\ r.attempts[1].dpi = 300
               /\ Len(r.attempts) = 2 <=> (~calc.first.ok /\ calc.first.size_limit)
               /\ Len(r.attempts) = 2 => r.attempts[2].dpi = 150
               /\ (~calc.first.ok /\ ~calc.first.size_limit)
                      => (r.pages = 0 /\ r.error # <<>>)
               /\ (Len(r.attempts) = 2 /\ ~calc.second.ok)
                      => (r.pages = 0 /\ r.error # <<>>)

----------------------------------------------------------------------------
(* Properties of the thread pool and of the tasks *)

\* the number of tasks of run r in the pool m whose page index is i
TasksForPage(m, r, i) ==
    Cardinality({t \in m.running : t.run = r /\ t.page_index = i})
    + Cardinality({k \in 1..Len(m.queue) : m.queue[k].run = r /\ m.queue[k].page_index = i})

\* C31: start_processing over N pages has submitted, when it returns, exactly N
\* tasks, one for each page, the task of index i reading the image of page i; and
\* at no time do more than min(4, CPUs of the machine) tasks execute.
C31_OneTaskPerPageWithinPool ==
    /\ [][ mgr'.run # mgr.run
           => /\ mgr'.total_pages = Len(app'.temp_pages)
              /\ \A i \in PageIndices(app') : TasksForPage(mgr', mgr'.run, i) = 1
              /\ \A t \in TasksOf(mgr') :
                     t.run = mgr'.run
                         => /\ t.page_index \in PageIndices(app')
                            /\ t.image_path = app'.temp_pages[t.page_index + 1] ]_vars
    /\ [](calc.cpu_count >= 1 => Cardinality(mgr.running) <= Min(4, calc.cpu_count))
    /\ [](Cardinality(mgr.running) <= 4)

\* C31 witness: on the machine with the most CPUs the tasks of all the pages of
\* the book have been submitted; four execute and the others wait in the queue.
C31_Witness ==
    /\ calc.cpu_count = PoolCpus
    /\ calc.cpu_count > 4
    /\ mgr.run = 1
    /\ Len(app.temp_pages) = BookPages
    /\ Cardinality(mgr.running) = 4
    /\ Len(mgr.queue) = BookPages - 4
    /\ \A i \in PageIndices(app) : TasksForPage(mgr, 1, i) = 1

\* this step is a handler that calls ocr_manager.stop_all(): process_file, closeEvent
StopAllCalled ==
    \/ hist'.loads # hist.loads
    \/ hist'.lastOp = "closeEvent" /\ hist.lastOp # "closeEvent"

\* the signals of the tasks in the event queue, oldest first
RECURSIVE TaskSignals(_)
TaskSignals(evs) ==
    IF evs = <<>> THEN <<>>
    ELSE IF Head(evs).sig \in {"page_processed", "error_occurred"}
         THEN <<Head(evs)>> \o TaskSignals(Tail(evs))
         ELSE TaskSignals(Tail(evs))

\* C32: stop_all discards every task that has not started executing: it leaves the
\* pool, and afterwards it neither executes nor emits, since a task starts executing
\* only at its submission or from the head of the queue and only an executing task
\* emits.  A task that is executing is not interrupted; it stays in the pool and
\* emits its signal when it ends, after stop_all has returned.
C32_StopAllDiscardsQueuedTasksOnly ==
    /\ [][ StopAllCalled
           => /\ \A k \in 1..Len(mgr.queue) : mgr.queue[k] \notin TasksOf(mgr')
              /\ mgr.running \subseteq mgr'.running ]_vars
    /\ [][ \A t \in mgr'.running \ mgr.running :
               \/ mgr'.run > mgr.run /\ t.run = mgr'.run
               \/ /\ ~StopAllCalled
                  /\ mgr.queue # <<>>
                  /\ t = Head(mgr.queue) ]_vars
    /\ [][ TaskSignals(events') # TaskSignals(events)
           => \/ TaskSignals(events) # <<>> /\ TaskSignals(events') = Tail(TaskSignals(events))
              \/ \E t \in mgr.running :
                     /\ t \notin mgr'.running
                     /\ \E ev \in {TaskEvent(t, TRUE), TaskEvent(t, FALSE)} :
                            TaskSignals(events') = Append(TaskSignals(events), ev) ]_vars

\* C32 witness: the two-page PDF was replaced while the task of its page 0 was
\* executing and that of page 1 was queued: after process_file the task of page 0
\* is still executing, and that of page 1 is gone without a signal.
C32_Witness ==
    /\ hist.lastOp = "process_file"
    /\ hist.loads = 2
    /\ \E t \in mgr.running :
           /\ t.run = 1 /\ t.page_index = 0 /\ t.image_path.file = "doc.pdf"
           /\ MaxPages >= 2
    /\ TasksForPage(mgr, 1, 1) = 0
    /\ 1 \notin hist.reported[1]
    /\ \A k \in 1..Len(events) :
           events[k].sig \in {"page_processed", "error_occurred"}
               => ~(events[k].run = 1 /\ events[k].page_index = 1)

\* C33: a task that has started executing emits exactly one signal before it ends,
\* page_processed with its own page index or error_occurred, never both and never
\* none, wherever in run() the failure occurs.
C33_OneSignalPerTask ==
    [][ \A t \in mgr.running \ mgr'.running :
            /\ Len(events') = Len(events) + 1
            /\ SubSeq(events', 1, Len(events)) = events
            /\ LET ev == events'[Len(events')]
               IN  /\ ev.sig \in {"page_processed", "error_occurred"}
                   /\ ev.run = t.run
                   /\ ev.page_index = t.page_index ]_vars

\* C33 witness: of the two tasks of the run the one of page 0 failed and the one of
\* page 1 succeeded; both have ended and the signal of each is in the event queue.
C33_Witness ==
    /\ mgr.run = 1
    /\ PoolTasks = {}
    /\ Len(events) = 2
    /\ \E k \in 1..2 : events[k].sig = "error_occurred" /\ events[k].page_index = 0
    /\ \E k \in 1..2 : events[k].sig = "page_processed" /\ events[k].page_index = 1

----------------------------------------------------------------------------
(* Properties of the edited flag and of the two line reconstructions *)

\* C34: the edited flag of a page becomes true only by a user edit of the text of
\* that page: no text the program itself writes into the editor (the placeholder
\* of a pending page, the re-run message, cached or recomputed text) marks a page
\* as edited.
C34_EditedFlagOnlyByUserEdit ==
    [][ \A i \in DOMAIN app'.text_modified :
            (app'.text_modified[i] /\ ~IsModified(app, i))
                => /\ hist'.lastOp = "user_edit"
                   /\ i = app.current_page_index ]_vars

\* C35: OCRTask.extract_text_lines and OCRApp.extract_text_lines_from_data return
\* the same sequence of lines for every word list and every threshold, so the text
\* cached when a page is recognised is the text recomputed later under the same
\* threshold.
C35_ReconstructionsAgree ==
    calc.op = "lines"
        => /\ calc.app_lines1 = calc.lines1
           /\ calc.app_lines2 = calc.lines2
           /\ Join(NL, calc.app_lines1) = Join(NL, calc.lines1)
           /\ Join(NL, calc.app_lines2) = Join(NL, calc.lines2)

\* C35 witness: a word list of three boxes, one of them a word whose confidence
\* equals the lower threshold and is filtered out: both implementations return
\* the same two lines under the lower threshold and none under the higher.
C35_Witness ==
    /\ calc.op = "lines"
    /\ calc.t1 = 50
    /\ Len(calc.data.text) = 3
    /\ Len(calc.lines1) = 2
    /\ Len(calc.app_lines1) = 2
    /\ \E i \in 1..3 : calc.data.conf[i] = Num(50) /\ ~calc.data.text[i] = <<SP>>
    /\ Len(calc.app_lines2) = 0
    /\ calc.app_lines1 = calc.lines1

====
